---- MODULE Spec2Model ----
(***************************************************************************)
(* Pesaprime backend: wallet ledger, investment positions, valuation and   *)
(* activity log.  The repository holds two variants of the same service:   *)
(*   - the flat-file variant (src/app/main.py): JSON files loaded and      *)
(*     rewritten whole by async request handlers;                          *)
(*   - the ORM variant (src/app/routes/*.py): one database transaction per *)
(*     request.                                                            *)
(* The variable impl says which variant a behaviour runs; it is chosen in  *)
(* Init and never changes.                                                 *)
(*                                                                         *)
(* Money is modelled with integers (the code uses floats; every amount and *)
(* price drawn here is an integer and every division the code makes is     *)
(* exact on the values drawn).  Ids of the JSON files are the decimal      *)
(* strings "1", "2", ...; the model keeps the numbers.                     *)
(***************************************************************************)
EXTENDS Integers, Sequences, FiniteSets, Bags, TLC

\* ---------------------------------------------------------------- bounds
\* Number of requests a behaviour starts.
MaxRequests == 4
\* Number of requests suspended at a price fetch at the same time.
MaxInFlight == 2
\* Number of requests a behaviour with failing writes starts (SpecFail).
MaxFailRequests == 4
\* Number of requests a behaviour of one account's buys, deposits and reads
\* starts (SpecRace).
MaxRaceRequests == 6
\* Requests of a behaviour of SpecPnl.
MaxPnlRequests == 5
\* Requests of a behaviour of SpecHistory.
MaxHistRequests == 23
\* Requests of a behaviour of SpecSignup.
MaxSignupRequests == 4
\* Requests of a behaviour of SpecSession.
MaxSessRequests == 5

\* ------------------------------------------------------- program constants
\* Starting balance written by register (main.py).
SignupBonus == 5000

\* ----------------------------------------------------------------- inputs
Emails == {"a@x.ke", "b@x.ke"}
Phones == {"+1", "+2"}
Passwords == {"secret1"}
\* Request amounts: a negative one, zero, one below the minimum investment
\* of the catalog, and the signup bonus.
Amounts == {-1000, 0, 500, 5000}
\* Prices the price source may return for an asset.
Prices == {100, 200}
\* Asset ids a request may name: one of the catalog, one unknown.
AssetIds == {"bitcoin", "nope"}
\* Prices a row of the assets table may hold (ORM variant): those of the
\* price source, and the default of the column, 0.0.
OrmPrices == Prices \cup {0}
Files == {"users", "wallets", "investments", "activities", "sessions"}

\* The asset catalog (PRODUCTION_ASSETS): static configuration.
Catalog == [a \in {"bitcoin"} |-> [name |-> "Bitcoin", min_investment |-> 700]]

VARIABLES
    impl,          \* "file" or "orm"
    users,         \* users.json: email -> user
    sessions,      \* sessions.json: session id -> session
    next_sid,      \* number of session ids issued so far
    wallets,       \* user_wallets.json: phone -> wallet
    investments,   \* user_investments.json: id -> investment
    activities,    \* user_activity.json: id -> activity
    now,           \* the clock read by datetime.utcnow()
    req,           \* suspended requests: a bag of the locals of each suspended handler
    nreq,          \* number of requests the behaviour may still start
    last,          \* the response to the request that completed last
    db_users,      \* ORM table users (row id = index)
    db_wallets,    \* ORM table wallets
    db_investments,\* ORM table investments
    db_transactions,\* ORM table transactions
    db_activities, \* ORM table activities
    db_assets      \* ORM table assets: asset id -> row

fileVars == <<users, sessions, next_sid, wallets, investments, activities, now, req>>
dbVars == <<db_users, db_wallets, db_investments, db_transactions, db_activities, db_assets>>
vars == <<impl, fileVars, dbVars, nreq, last>>

\* ---------------------------------------------------------------- helpers
EmptyMap == [k \in {} |-> 0]

Put(m, k, v) == [x \in (DOMAIN m) \cup {k} |-> IF x = k THEN v ELSE m[x]]

Max(S) == CHOOSE x \in S : \A y \in S : y <= x

\* The sum of a field over a set of records.
RECURSIVE SumField(_, _)
SumField(S, field) ==
    IF S = {} THEN 0
    ELSE LET x == CHOOSE y \in S : TRUE IN x[field] + SumField(S \ {x}, field)

\* No write of a request fails.
AllOk == [f \in Files |-> TRUE]

\* save_data: the file takes the new content, or keeps the old one when the
\* write raises (the exception is caught and printed).
save_data(ok, old, new) == IF ok THEN new ELSE old

\* get_next_id: "1" for an empty mapping, else max numeric key + 1.
\* Mutant of get_next_id: the highest id is handed out again.
get_next_id_reused(data) == IF DOMAIN data = {} THEN 1 ELSE Max(DOMAIN data)

get_next_id(data) == IF DOMAIN data = {} THEN 1 ELSE Max(DOMAIN data) + 1

DefaultWallet == [balance |-> 0, equity |-> 0, currency |-> "KES"]

\* wallets.get(phone, {"balance": 0, "equity": 0, "currency": "KES"})
wallet_get(w, phone) == IF phone \in DOMAIN w THEN w[phone] ELSE DefaultWallet

\* get_current_user: the error it raises, or "ok".
auth_error(sid) ==
    IF sid \notin DOMAIN sessions THEN "Invalid session"
    ELSE IF sessions[sid].user_email \notin DOMAIN users THEN "User not found"
    ELSE "ok"

current_user(sid) == users[sessions[sid].user_email]

\* Mutant of log_user_activity: the file is rewritten with the new activity
\* alone.
log_user_activity_alone(ok, acts, phone, type, amount, description, ts) ==
    LET id == get_next_id(acts)
        activity == [id |-> id, user_phone |-> phone, activity_type |-> type,
                     amount |-> amount, description |-> description,
                     timestamp |-> ts, status |-> "completed"]
    IN save_data(ok, acts, Put(EmptyMap, id, activity))

\* log_user_activity: the activity file after the append.
log_user_activity(ok, acts, phone, type, amount, description, ts) ==
    LET id == get_next_id(acts)
        activity == [id |-> id, user_phone |-> phone, activity_type |-> type,
                     amount |-> amount, description |-> description,
                     timestamp |-> ts, status |-> "completed"]
    IN save_data(ok, acts, Put(acts, id, activity))

\* A percentage is a fraction num/den of one percent unit: PnLData of
\* main.py holds a count of hundredths (den = 100), that of the ORM variant
\* the quotient itself.
NoPnl == [profit_loss |-> 0, percentage |-> [num |-> 0, den |-> 1], trend |-> "none"]

\* A response; n numbers the responses in the order they are sent.  asset
\* is the asset id of the request when it is a buy, email the email of a
\* registration; positions, pnl, activities and assets are what a handler
\* returns of the investments, of the profit and loss, of the activity log
\* and of the market.
Response(op, account, amount, status, detail, balance, equity) ==
    [n |-> last.n + 1, op |-> op, account |-> account, amount |-> amount,
     asset |-> "none", email |-> "none", status |-> status, detail |-> detail,
     new_balance |-> balance, new_equity |-> equity,
     positions |-> {}, pnl |-> NoPnl, activities |-> << >>, assets |-> EmptyMap]

\* The response to a registration by email.
RegisterResponse(email, account, status, detail) ==
    [Response("register", account, 0, status, detail, 0, 0) EXCEPT !.email = email]

\* The response to a buy of asset_id.
BuyResponse(asset_id, account, amount, status, detail, balance, equity) ==
    [Response("buy", account, amount, status, detail, balance, equity)
        EXCEPT !.asset = asset_id]

\* A request rejected by an HTTPException before it wrote anything.
Reject(op, account, amount, status, detail) ==
    /\ last' = Response(op, account, amount, status, detail, 0, 0)
    /\ UNCHANGED <<users, sessions, next_sid, wallets, investments, activities, now>>

\* A registration rejected by an HTTPException before it wrote anything.
RejectRegister(email, account, status, detail) ==
    /\ last' = RegisterResponse(email, account, status, detail)
    /\ UNCHANGED <<users, sessions, next_sid, wallets, investments, activities, now>>

\* A buy rejected by an HTTPException before it wrote anything.
RejectBuy(asset_id, account, amount, status, detail) ==
    /\ last' = BuyResponse(asset_id, account, amount, status, detail, 0, 0)
    /\ UNCHANGED <<users, sessions, next_sid, wallets, investments, activities, now>>

\* A new request enters the flat-file service.
StartFile ==
    /\ impl = "file"
    /\ nreq > 0
    /\ nreq' = nreq - 1
    /\ UNCHANGED <<impl, dbVars>>

\* Another handler may be suspended.
HasFreeSlot == BagCardinality(req) < MaxInFlight

\* ------------------------------------------------------ register (main.py)
get_password_hash(password) == <<"md5_crypt", password>>

new_wallet == [balance |-> SignupBonus, equity |-> SignupBonus, currency |-> "KES"]

\* Mutant of phone_registered: the phone number is not looked up.
phone_not_looked_up(phone) == FALSE

\* Lines 588-592: a user of the users file has the phone number.
phone_registered(phone) == \E e \in DOMAIN users : users[e].phone_number = phone

register(f, email, phone, password) ==
    /\ StartFile
    /\ UNCHANGED req
    /\ IF email \in DOMAIN users
       THEN RejectRegister(email, phone, 400, "Email already registered")
       ELSE IF phone_registered(phone)
       THEN RejectRegister(email, phone, 400, "Phone number already registered")
       ELSE LET user == [email |-> email, phone_number |-> phone,
                         hashed_password |-> get_password_hash(password)]
                sid == next_sid + 1
                a1 == log_user_activity(f["activities"], activities, phone,
                                        "registration", 0, "User registered successfully", now + 1)
                a2 == log_user_activity(f["activities"], a1, phone,
                                        "deposit", SignupBonus, "Welcome bonus deposited", now + 2)
            IN /\ users' = save_data(f["users"], users, Put(users, email, user))
               /\ wallets' = save_data(f["wallets"], wallets, Put(wallets, phone, new_wallet))
               /\ sessions' = save_data(f["sessions"], sessions,
                                        Put(sessions, sid, [user_email |-> email, phone_number |-> phone]))
               /\ next_sid' = sid
               /\ activities' = a2
               /\ now' = now + 2
               /\ UNCHANGED investments
               /\ last' = RegisterResponse(email, phone, 200, "User registered successfully")

\* ------------------------------------------------- login, logout (main.py)
\* Mutant of verify_password: every password is accepted.
verify_password_any(plain_password, hashed_password) == TRUE

\* pwd_context.verify: the hash is that of the password.
verify_password(plain_password, hashed_password) ==
    hashed_password = get_password_hash(plain_password)

\* The response to a login by email.
LoginResponse(email, account, status, detail) ==
    [Response("login", account, 0, status, detail, 0, 0) EXCEPT !.email = email]

login(f, email, password) ==
    /\ StartFile
    /\ UNCHANGED req
    /\ IF email \notin DOMAIN users
       THEN /\ last' = LoginResponse(email, "none", 401, "Incorrect email or password")
            /\ UNCHANGED <<users, sessions, next_sid, wallets, investments, activities, now>>
       ELSE IF ~verify_password(password, users[email].hashed_password)
       THEN /\ last' = LoginResponse(email, users[email].phone_number, 401,
                                     "Incorrect email or password")
            /\ UNCHANGED <<users, sessions, next_sid, wallets, investments, activities, now>>
       ELSE LET sid == next_sid + 1
            IN /\ sessions' = save_data(f["sessions"], sessions,
                       Put(sessions, sid, [user_email |-> email,
                                           phone_number |-> users[email].phone_number]))
               /\ next_sid' = sid
               /\ UNCHANGED <<users, wallets, investments, activities, now>>
               /\ last' = LoginResponse(email, users[email].phone_number, 200,
                                        "Login successful")

\* Mutant of delete_session: the sessions file is left as it is.
delete_session_kept(f, sid) == sessions

\* Lines 497-501: the sessions file after delete_session.
delete_session(f, sid) ==
    IF sid \in DOMAIN sessions
    THEN save_data(f["sessions"], sessions,
                   [x \in DOMAIN sessions \ {sid} |-> sessions[x]])
    ELSE sessions

\* logout: delete_session, whether or not the session exists.
logout(f, sid) ==
    /\ StartFile
    /\ UNCHANGED req
    /\ sessions' = delete_session(f, sid)
    /\ UNCHANGED <<users, next_sid, wallets, investments, activities, now>>
    /\ last' = Response("logout", "none", 0, 200, "Logged out successfully", 0, 0)

\* ------------------------------------------------- deposit_funds (main.py)
\* Mutant of deposit_apply: the equity is not credited.
deposit_apply_balance_only(uw, amount) == [uw EXCEPT !.balance = @ + amount]

deposit_apply(uw, amount) ==
    [uw EXCEPT !.balance = @ + amount, !.equity = @ + amount]

deposit_funds(f, sid, phone, amount) ==
    /\ StartFile
    /\ UNCHANGED req
    /\ IF auth_error(sid) # "ok"
       THEN Reject("deposit", phone, amount, 401, auth_error(sid))
       ELSE IF phone # current_user(sid).phone_number
       THEN Reject("deposit", phone, amount, 403, "Unauthorized")
       ELSE LET user_wallet == deposit_apply(wallet_get(wallets, phone), amount)
            IN /\ wallets' = save_data(f["wallets"], wallets, Put(wallets, phone, user_wallet))
               /\ activities' = log_user_activity(f["activities"], activities, phone,
                                                  "deposit", amount, "Deposit of KSh", now + 1)
               /\ now' = now + 1
               /\ UNCHANGED <<users, sessions, next_sid, investments>>
               /\ last' = Response("deposit", phone, amount, 200,
                                   "Deposit successful", user_wallet.balance, user_wallet.equity)

\* ------------------------------------------------ withdraw_funds (main.py)
\* Mutant of insufficient_balance: a withdraw of the whole balance is refused.
insufficient_balance_or_equal(uw, amount) == uw.balance <= amount

insufficient_balance(uw, amount) == uw.balance < amount

withdraw_apply(uw, amount) ==
    [uw EXCEPT !.balance = @ - amount, !.equity = @ - amount]

withdraw_funds(f, sid, phone, amount) ==
    /\ StartFile
    /\ UNCHANGED req
    /\ IF auth_error(sid) # "ok"
       THEN Reject("withdraw", phone, amount, 401, auth_error(sid))
       ELSE IF phone # current_user(sid).phone_number
       THEN Reject("withdraw", phone, amount, 403, "Unauthorized")
       ELSE IF insufficient_balance(wallet_get(wallets, phone), amount)
       THEN Reject("withdraw", phone, amount, 400, "Insufficient balance")
       ELSE LET user_wallet == withdraw_apply(wallet_get(wallets, phone), amount)
            IN /\ wallets' = save_data(f["wallets"], wallets, Put(wallets, phone, user_wallet))
               /\ activities' = log_user_activity(f["activities"], activities, phone,
                                                  "withdraw", amount, "Withdrawal of KSh", now + 1)
               /\ now' = now + 1
               /\ UNCHANGED <<users, sessions, next_sid, investments>>
               /\ last' = Response("withdraw", phone, amount, 200,
                                   "Withdrawal successful", user_wallet.balance, user_wallet.equity)

\* ------------------------------------------------- buy_investment (main.py)
\* The asset list generate_dynamic_prices returns: every catalog asset, at
\* the price the source drew for it.
generate_dynamic_prices(price) ==
    [a \in DOMAIN Catalog |-> [id |-> a, name |-> Catalog[a].name,
                               min_investment |-> Catalog[a].min_investment,
                               current_price |-> price]]

below_minimum(amount, asset) == amount < asset.min_investment

\* Mutant of new_investment: the position starts without a value.
new_investment_without_value(id, phone, asset, amount) ==
    [id |-> id, user_phone |-> phone, asset_id |-> asset.id,
     invested_amount |-> amount, current_value |-> 0,
     units |-> amount \div asset.current_price,
     entry_price |-> asset.current_price, current_price |-> asset.current_price,
     profit_loss |-> -amount, profit_loss_percentage |-> -100, status |-> "active"]

new_investment(id, phone, asset, amount) ==
    [id |-> id, user_phone |-> phone, asset_id |-> asset.id,
     invested_amount |-> amount, current_value |-> amount,
     units |-> amount \div asset.current_price,
     entry_price |-> asset.current_price, current_price |-> asset.current_price,
     profit_loss |-> 0, profit_loss_percentage |-> 0, status |-> "active"]

investment_debit(uw, amount) == [uw EXCEPT !.balance = @ - amount]

\* Lines 753-767: session, wallet snapshot and balance check, up to the
\* price fetch, where the handler is suspended.
buy_start(sid, phone, asset_id, amount) ==
    /\ StartFile
    /\ IF auth_error(sid) # "ok"
       THEN RejectBuy(asset_id, phone, amount, 401, auth_error(sid)) /\ UNCHANGED req
       ELSE IF phone # current_user(sid).phone_number
       THEN RejectBuy(asset_id, phone, amount, 403, "Unauthorized") /\ UNCHANGED req
       ELSE IF insufficient_balance(wallet_get(wallets, phone), amount)
       THEN RejectBuy(asset_id, phone, amount, 400, "Insufficient balance") /\ UNCHANGED req
       ELSE /\ HasFreeSlot
            /\ req' = req (+) SetToBag(
                          {[pc |-> "buy", phone |-> phone,
                            asset_id |-> asset_id, amount |-> amount,
                            wallets |-> wallets,
                            user_wallet |-> wallet_get(wallets, phone)]})
            /\ UNCHANGED <<users, sessions, next_sid, wallets, investments, activities, now, last>>

\* Lines 767-821: the handler resumes with the fetched prices.
buy_finish(f, r, price) ==
    /\ impl = "file"
    /\ BagIn(r, req)
    /\ r.pc = "buy"
    /\ req' = req (-) SetToBag({r})
    /\ UNCHANGED <<impl, dbVars, nreq>>
    /\ LET assets == generate_dynamic_prices(price)
       IN IF r.asset_id \notin DOMAIN assets
          THEN RejectBuy(r.asset_id, r.phone, r.amount, 404, "Asset not found")
          ELSE IF below_minimum(r.amount, assets[r.asset_id])
          THEN RejectBuy(r.asset_id, r.phone, r.amount, 400, "Minimum investment")
          ELSE LET investment_id == get_next_id(investments)
                   investment == new_investment(investment_id, r.phone,
                                                assets[r.asset_id], r.amount)
                   user_wallet == investment_debit(r.user_wallet, r.amount)
               IN /\ investments' = save_data(f["investments"], investments,
                                              Put(investments, investment_id, investment))
                  /\ wallets' = save_data(f["wallets"], wallets,
                                          Put(r.wallets, r.phone, user_wallet))
                  /\ activities' = log_user_activity(f["activities"], activities, r.phone,
                                                     "investment", r.amount, "Investment in", now + 1)
                  /\ now' = now + 1
                  /\ UNCHANGED <<users, sessions, next_sid>>
                  /\ last' = [BuyResponse(r.asset_id, r.phone, r.amount, 200,
                                          "Investment successful", user_wallet.balance,
                                          user_wallet.equity)
                                  EXCEPT !.positions = {investment}]

\* ---------------------------------------- update_investment_values (main.py)
\* Mutant of revalue: the current value is not recomputed.
revalue_price_only(investment, price) ==
    [investment EXCEPT !.current_price = price,
                       !.profit_loss = investment.current_value - investment.invested_amount,
                       !.profit_loss_percentage =
                           ((investment.current_value - investment.invested_amount) * 100)
                               \div investment.invested_amount]

\* Mutant of revalue: the profit is added to the profit already recorded.
revalue_accumulating(investment, price) ==
    LET current_value == investment.units * price
        profit_loss == investment.profit_loss + current_value - investment.invested_amount
    IN [investment EXCEPT !.current_value = current_value,
                          !.current_price = price,
                          !.profit_loss = profit_loss,
                          !.profit_loss_percentage =
                              (profit_loss * 100) \div investment.invested_amount]

revalue(investment, price) ==
    LET current_value == investment.units * price
        profit_loss == current_value - investment.invested_amount
    IN [investment EXCEPT !.current_value = current_value,
                          !.current_price = price,
                          !.profit_loss = profit_loss,
                          !.profit_loss_percentage =
                              (profit_loss * 100) \div investment.invested_amount]

\* The loop of lines 398-411 over the snapshot loaded at line 395.
update_investment_values(snapshot, phone, assets) ==
    [i \in DOMAIN snapshot |->
        IF /\ snapshot[i].user_phone = phone
           /\ snapshot[i].status = "active"
           /\ snapshot[i].asset_id \in DOMAIN assets
        THEN revalue(snapshot[i], assets[snapshot[i].asset_id].current_price)
        ELSE snapshot[i]]

ReadOps == {"balance", "investments", "pnl"}

\* round(x, 2) of the quotient x = num / den, den > 0, as a count of
\* hundredths: the nearest one, and the even one of two equally near.
round2(num, den) ==
    LET q == (num * 100) \div den
        r == (num * 100) % den
    IN IF 2 * r > den \/ (2 * r = den /\ q % 2 = 1) THEN q + 1 ELSE q

\* Mutant of user_investments: the active investments of every account.
user_investments_of_all(file, phone) ==
    {file[i] : i \in {j \in DOMAIN file : file[j].status = "active"}}

\* Lines 834-837: the active investments of phone in a loaded file.
user_investments(file, phone) ==
    {file[i] : i \in {j \in DOMAIN file : /\ file[j].user_phone = phone
                                          /\ file[j].status = "active"}}

\* Lines 863-886 of get_user_pnl, over the investments file it loads.  The
\* amounts of the model are whole, so round(profit_loss, 2) leaves them as
\* they are.
get_user_pnl(file, phone) ==
    LET total_invested == SumField(user_investments(file, phone), "invested_amount")
        total_current_value == SumField(user_investments(file, phone), "current_value")
        profit_loss == total_current_value - total_invested
    IN IF total_invested = 0
       THEN [profit_loss |-> 0, percentage |-> [num |-> 0, den |-> 100],
             trend |-> "neutral"]
       ELSE [profit_loss |-> profit_loss,
             percentage |-> [num |-> round2(profit_loss * 100, total_invested),
                             den |-> 100],
             trend |-> IF profit_loss >= 0 THEN "up" ELSE "down"]

\* get_wallet_balance, get_my_investments and get_user_pnl up to the price
\* fetch inside update_investment_values: the session is validated, the
\* files are loaded, and the handler is suspended.  The three handlers write
\* the same and differ in what they return, so which of them the suspended
\* request is (op) is drawn when it resumes and builds its response.
\* follows records what the client did just before: the investment of the
\* successful buy of phone whose response was the last one sent when this
\* request came in, if there is one.
refresh_start(sid, phone) ==
    /\ StartFile
    /\ IF auth_error(sid) # "ok"
       THEN Reject("read", phone, 0, 401, auth_error(sid)) /\ UNCHANGED req
       ELSE /\ HasFreeSlot
            /\ req' = req (+) SetToBag(
                          {[pc |-> "refresh", phone |-> phone,
                            investments |-> investments,
                            user_wallet |-> wallet_get(wallets, phone),
                            follows |-> IF /\ last.op = "buy" /\ last.status = 200
                                           /\ last.account = phone
                                        THEN last.positions ELSE {}]})
            /\ UNCHANGED <<users, sessions, next_sid, wallets, investments, activities, now, last>>

\* update_investment_values resumes: the snapshot is revalued and saved, and
\* the handler returns.
refresh_finish(f, r, op, price) ==
    /\ impl = "file"
    /\ BagIn(r, req)
    /\ r.pc = "refresh"
    /\ req' = req (-) SetToBag({r})
    /\ UNCHANGED <<impl, dbVars, nreq>>
    /\ investments' = save_data(f["investments"], investments,
           update_investment_values(r.investments, r.phone, generate_dynamic_prices(price)))
    /\ UNCHANGED <<users, sessions, next_sid, wallets, activities, now>>
    /\ last' = CASE op = "balance" ->
                     \* get_wallet_balance: the wallet loaded before the refresh
                     Response(op, r.phone, 0, 200, "ok",
                              r.user_wallet.balance, r.user_wallet.equity)
                  [] op = "investments" ->
                     \* get_my_investments: the list built before the refresh
                     [Response(op, r.phone, 0, 200, "ok", 0, 0)
                         EXCEPT !.positions = user_investments(r.investments, r.phone)]
                  [] op = "pnl" ->
                     \* get_user_pnl: the file loaded after the refresh
                     [Response(op, r.phone, 0, 200, "ok", 0, 0)
                         EXCEPT !.pnl = get_user_pnl(investments', r.phone)]

\* ------------------------------------------------ get_my_activities (main.py)
\* user_activities[:20]
ActivityLimit == 20

\* sort(key=timestamp, reverse=True) of a set of activities.
RECURSIVE sort_by_timestamp_desc(_)
sort_by_timestamp_desc(S) ==
    IF S = {} THEN << >>
    ELSE LET x == CHOOSE y \in S : \A z \in S : z.timestamp <= y.timestamp
         IN <<x>> \o sort_by_timestamp_desc(S \ {x})

\* seq[:limit]
truncate(seq, limit) == SubSeq(seq, 1, IF Len(seq) < limit THEN Len(seq) ELSE limit)

\* get_my_activities and get_activities_alt: no suspension point.
get_my_activities(sid, phone) ==
    /\ StartFile
    /\ UNCHANGED req
    /\ IF auth_error(sid) # "ok"
       THEN Reject("activities", phone, 0, 401, auth_error(sid))
       ELSE LET user_activities ==
                    {activities[i] : i \in {j \in DOMAIN activities :
                                                activities[j].user_phone = phone}}
            IN /\ UNCHANGED <<users, sessions, next_sid, wallets, investments,
                               activities, now>>
               /\ last' = [Response("activities", phone, 0, 200, "ok", 0, 0)
                              EXCEPT !.activities =
                                  truncate(sort_by_timestamp_desc(user_activities),
                                           ActivityLimit)]

\* ======================================================= the ORM variant
\* Each handler of src/app/routes is one database session: it reads rows,
\* changes them and adds new ones, and db.commit() writes all of it or, when
\* the commit raises, none of it.  A request is made by an authenticated user
\* u (the row id Depends(get_current_user) resolved).  Rows of a table are
\* kept in insertion order; the primary key of a row is its index.

StartOrm ==
    /\ impl = "orm"
    /\ nreq > 0
    /\ nreq' = nreq - 1
    /\ UNCHANGED <<impl, fileVars>>

RejectOrm(op, account, amount, status, detail) ==
    /\ last' = Response(op, account, amount, status, detail, 0, 0)
    /\ UNCHANGED dbVars

RejectOrmRegister(email, account, status, detail) ==
    /\ last' = RegisterResponse(email, account, status, detail)
    /\ UNCHANGED dbVars

RejectOrmBuy(asset_id, account, amount, status, detail) ==
    /\ last' = BuyResponse(asset_id, account, amount, status, detail, 0, 0)
    /\ UNCHANGED dbVars

\* Phone numbers that begin with "+".
PlusPhones == {"+1", "+2"}

\* UserCreate.phone_validation (schemas/user.py)
phone_validation(v) == v \in PlusPhones

\* db.query(Wallet).filter(Wallet.user_id == u).first(): the row id, 0 for None.
wallet_of(u) ==
    LET ids == {w \in 1..Len(db_wallets) : db_wallets[w].user_id = u}
    IN IF ids = {} THEN 0 ELSE CHOOSE w \in ids : \A x \in ids : w <= x

\* ------------------------------------------------- register (routes/auth.py)
orm_register(email, phone, password) ==
    /\ StartOrm
    /\ IF ~phone_validation(phone)
       THEN RejectOrmRegister(email, phone, 422, "Phone number must include country code")
       ELSE IF \E i \in 1..Len(db_users) :
                  db_users[i].email = email \/ db_users[i].phone_number = phone
       THEN RejectOrmRegister(email, phone, 400,
                              "User with this email or phone number already exists")
       ELSE /\ db_users' = Append(db_users, [email |-> email, phone_number |-> phone,
                                             hashed_password |-> get_password_hash(password)])
            /\ db_wallets' = Append(db_wallets, [user_id |-> Len(db_users) + 1, balance |-> 0,
                                                 equity |-> 0, currency |-> "KES"])
            /\ UNCHANGED <<db_investments, db_transactions, db_activities, db_assets>>
            /\ last' = RegisterResponse(email, phone, 200, "ok")

\* ---------------------------------------------------- login (routes/auth.py)
\* The access token is not stored: a login changes no row.
orm_login(email, password) ==
    /\ StartOrm
    /\ UNCHANGED dbVars
    /\ LET ids == {i \in 1..Len(db_users) : db_users[i].email = email}
       IN IF ids = {}
          THEN last' = LoginResponse(email, "none", 401, "Incorrect email or password")
          ELSE LET user == db_users[CHOOSE i \in ids : \A j \in ids : i <= j]
               IN IF ~verify_password(password, user.hashed_password)
                  THEN last' = LoginResponse(email, user.phone_number, 401,
                                             "Incorrect email or password")
                  ELSE last' = LoginResponse(email, user.phone_number, 200, "ok")

\* -------------------------------------------- deposit_funds (routes/wallet.py)
invalid_amount(amount) == amount <= 0

orm_deposit_funds(u, amount) ==
    /\ StartOrm
    /\ LET phone == db_users[u].phone_number
           w == wallet_of(u)
       IN IF invalid_amount(amount)
          THEN RejectOrm("deposit", phone, amount, 400, "Amount must be greater than 0")
          ELSE IF w = 0
          THEN RejectOrm("deposit", phone, amount, 404, "Wallet not found")
          ELSE /\ db_wallets' = [db_wallets EXCEPT ![w] = deposit_apply(@, amount)]
               /\ db_transactions' = Append(db_transactions,
                      [wallet_id |-> w, amount |-> amount, transaction_type |-> "deposit",
                       status |-> "completed", reference |-> <<"uuid", Len(db_transactions) + 1>>])
               /\ db_activities' = Append(db_activities,
                      [user_id |-> u, activity_type |-> "deposit", amount |-> amount,
                       status |-> "completed"])
               /\ UNCHANGED <<db_users, db_investments, db_assets>>
               /\ last' = Response("deposit", phone, amount, 200, "Deposit successful",
                                   db_wallets'[w].balance, db_wallets'[w].equity)

\* ------------------------------------------- withdraw_funds (routes/wallet.py)
orm_withdraw_funds(u, amount) ==
    /\ StartOrm
    /\ LET phone == db_users[u].phone_number
           w == wallet_of(u)
       IN IF invalid_amount(amount)
          THEN RejectOrm("withdraw", phone, amount, 400, "Amount must be greater than 0")
          ELSE IF w = 0
          THEN RejectOrm("withdraw", phone, amount, 404, "Wallet not found")
          ELSE IF insufficient_balance(db_wallets[w], amount)
          THEN RejectOrm("withdraw", phone, amount, 400, "Insufficient balance")
          ELSE /\ db_wallets' = [db_wallets EXCEPT ![w] = withdraw_apply(@, amount)]
               /\ db_transactions' = Append(db_transactions,
                      [wallet_id |-> w, amount |-> amount, transaction_type |-> "withdraw",
                       status |-> "completed", reference |-> <<"uuid", Len(db_transactions) + 1>>])
               /\ db_activities' = Append(db_activities,
                      [user_id |-> u, activity_type |-> "withdraw", amount |-> -amount,
                       status |-> "completed"])
               /\ UNCHANGED <<db_users, db_investments, db_assets>>
               /\ last' = Response("withdraw", phone, amount, 200, "Withdrawal successful",
                                   db_wallets'[w].balance, db_wallets'[w].equity)

\* ---------------------------------------- buy_investment (routes/investments.py)
\* units = invested_amount / asset.current_price raises ZeroDivisionError,
\* which no handler catches: the request is answered 500 and nothing is
\* committed.
division_by_zero(asset) == asset.current_price = 0

\* Transaction.reference is unique: the commit raises when the reference of
\* the new row is already in the table.
reference_conflict(reference) ==
    \E t \in 1..Len(db_transactions) : db_transactions[t].reference = reference

orm_buy_investment(u, asset_id, amount) ==
    /\ StartOrm
    /\ LET phone == db_users[u].phone_number
           w == wallet_of(u)
           assets == db_assets
           reference == <<"INV", u, asset_id>>
       IN IF asset_id \notin DOMAIN assets
          THEN RejectOrmBuy(asset_id, phone, amount, 404, "Asset not found")
          ELSE IF below_minimum(amount, assets[asset_id])
          THEN RejectOrmBuy(asset_id, phone, amount, 400, "Minimum investment")
          ELSE IF w = 0
          THEN RejectOrmBuy(asset_id, phone, amount, 404, "Wallet not found")
          ELSE IF insufficient_balance(db_wallets[w], amount)
          THEN RejectOrmBuy(asset_id, phone, amount, 400, "Insufficient balance")
          ELSE IF division_by_zero(assets[asset_id])
          THEN RejectOrmBuy(asset_id, phone, amount, 500, "ZeroDivisionError")
          ELSE IF reference_conflict(reference)
          THEN RejectOrmBuy(asset_id, phone, amount, 500, "IntegrityError")
          ELSE /\ db_investments' = Append(db_investments,
                      new_investment(Len(db_investments) + 1, phone, assets[asset_id], amount))
               /\ db_wallets' = [db_wallets EXCEPT ![w] = investment_debit(@, amount)]
               /\ db_transactions' = Append(db_transactions,
                      [wallet_id |-> w, amount |-> -amount, transaction_type |-> "investment",
                       status |-> "completed", reference |-> reference])
               /\ db_activities' = Append(db_activities,
                      [user_id |-> u, activity_type |-> "investment", amount |-> -amount,
                       status |-> "completed"])
               /\ UNCHANGED <<db_users, db_assets>>
               /\ last' = [BuyResponse(asset_id, phone, amount, 200, "Investment successful",
                                       db_wallets'[w].balance, db_wallets'[w].equity)
                               EXCEPT !.positions =
                                   {db_investments'[Len(db_investments')]}]

\* ------------------------------------------- the reads of the ORM variant
\* get_wallet_balance (routes/wallet.py)
orm_get_wallet_balance(u) ==
    /\ StartOrm
    /\ LET phone == db_users[u].phone_number
           w == wallet_of(u)
       IN IF w = 0
          THEN RejectOrm("balance", phone, 0, 404, "Wallet not found")
          ELSE /\ UNCHANGED dbVars
               /\ last' = Response("balance", phone, 0, 200, "ok",
                                   db_wallets[w].balance, db_wallets[w].equity)

\* get_my_investments (routes/investments.py): every investment of the user.
orm_get_my_investments(u) ==
    /\ StartOrm
    /\ UNCHANGED dbVars
    /\ last' = [Response("investments", db_users[u].phone_number, 0, 200, "ok", 0, 0)
                   EXCEPT !.positions =
                       {db_investments[i] : i \in {j \in 1..Len(db_investments) :
                           db_investments[j].user_phone = db_users[u].phone_number}}]

\* get_current_pnl (routes/investments.py): no refresh, no rounding.
orm_get_current_pnl(u) ==
    /\ StartOrm
    /\ UNCHANGED dbVars
    /\ LET phone == db_users[u].phone_number
           rows == {db_investments[i] : i \in {j \in 1..Len(db_investments) :
                       /\ db_investments[j].user_phone = phone
                       /\ db_investments[j].status = "active"}}
           total_invested == SumField(rows, "invested_amount")
           total_current == SumField(rows, "current_value")
           total_pnl == total_current - total_invested
       IN last' = [Response("pnl", phone, 0, 200, "ok", 0, 0)
                      EXCEPT !.pnl =
                          [profit_loss |-> total_pnl,
                           percentage |-> IF total_invested > 0
                                          THEN [num |-> total_pnl * 100,
                                                den |-> total_invested]
                                          ELSE [num |-> 0, den |-> 1],
                           trend |-> IF total_pnl >= 0 THEN "up" ELSE "down"]]

\* order_by(Activity.created_at.desc()) over the rows 1..n of user u: a row
\* inserted later was created later.
RECURSIVE activities_desc(_, _)
activities_desc(u, n) ==
    IF n = 0 THEN << >>
    ELSE (IF db_activities[n].user_id = u
          THEN <<[id |-> n, user_id |-> u,
                  activity_type |-> db_activities[n].activity_type,
                  amount |-> db_activities[n].amount,
                  status |-> db_activities[n].status]>>
          ELSE << >>) \o activities_desc(u, n - 1)

\* get_my_activities (routes/activities.py): .all(), every row of the user.
orm_get_my_activities(u) ==
    /\ StartOrm
    /\ UNCHANGED dbVars
    /\ last' = [Response("activities", db_users[u].phone_number, 0, 200, "ok", 0, 0)
                   EXCEPT !.activities = activities_desc(u, Len(db_activities))]

\* ------------------------------------------------------------ specification
\* The state after startup, with n requests to come.
InitWith(n) ==
    /\ impl \in {"file", "orm"}
    /\ users = EmptyMap
    /\ sessions = EmptyMap
    /\ next_sid = 0
    /\ wallets = EmptyMap
    /\ investments = EmptyMap
    /\ activities = EmptyMap
    /\ now = 0
    /\ req = EmptyBag
    /\ nreq = n
    /\ last = [n |-> 0, op |-> "none", account |-> "none", amount |-> 0, asset |-> "none",
               email |-> "none", status |-> 0, detail |-> "none",
               new_balance |-> 0, new_equity |-> 0,
               positions |-> {}, pnl |-> NoPnl, activities |-> << >>, assets |-> EmptyMap]
    /\ db_users = << >>
    /\ db_wallets = << >>
    /\ db_investments = << >>
    /\ db_transactions = << >>
    /\ db_activities = << >>
    /\ db_assets \in IF impl = "orm"
                     THEN {generate_dynamic_prices(p) : p \in OrmPrices}
                     ELSE {EmptyMap}

Init == InitWith(MaxRequests)

\* Session ids a request may carry: every id issued so far, and one never issued.
SessionIds == 0..next_sid

\* The inputs drawn for a request.  A handler rejects a request with an
\* unknown session, or one naming another account's phone, before it reads
\* anything else of the request, so one request of each such kind is drawn
\* for each session and phone rather than one for each amount and asset.
\* An unknown asset is drawn with one amount, which the balance check
\* before the asset lookup passes or rejects according to the balance.
Drawn(sid, phone, amount, asset_id) ==
    \/ /\ auth_error(sid) = "ok"
       /\ phone = current_user(sid).phone_number
       /\ asset_id \in DOMAIN Catalog \/ amount = SignupBonus
    \/ /\ auth_error(sid) = "ok"
       /\ amount = SignupBonus /\ asset_id = "bitcoin"
    \/ /\ auth_error(sid) # "ok"
       /\ amount = SignupBonus /\ asset_id = "bitcoin" /\ phone = "+1"

\* The read handlers check the session only: one read is drawn for each
\* account (through any of its own sessions, or through the other account's
\* first session), and one with an unknown session.
DrawnRead(sid, phone) ==
    \/ auth_error(sid) = "ok" /\ phone = current_user(sid).phone_number
    \/ auth_error(sid) = "ok" /\ sid = 1
    \/ auth_error(sid) # "ok" /\ phone = "+1"

\* Emails and phone numbers are opaque to the code, so the first account
\* registered is taken to be the first email with the first phone.
DrawnAccount(email, phone) ==
    (users = EmptyMap /\ db_users = << >>) => (email = "a@x.ke" /\ phone = "+1")

\* The users of the ORM variant.
UserIds == 1..Len(db_users)

\* An unknown asset is drawn with one amount.
DrawnOrm(amount, asset_id) == asset_id \in DOMAIN Catalog \/ amount = SignupBonus

\* The requests of the flat-file variant, with every write succeeding.
Register ==
    \E e \in Emails, p \in Phones, w \in Passwords :
        DrawnAccount(e, p) /\ register(AllOk, e, p, w)

Deposit ==
    \E sid \in SessionIds, p \in Phones, a \in Amounts :
        Drawn(sid, p, a, "bitcoin") /\ deposit_funds(AllOk, sid, p, a)

Withdraw ==
    \E sid \in SessionIds, p \in Phones, a \in Amounts :
        Drawn(sid, p, a, "bitcoin") /\ withdraw_funds(AllOk, sid, p, a)

BuyStart ==
    \E sid \in SessionIds, p \in Phones, x \in AssetIds, a \in Amounts :
        Drawn(sid, p, a, x) /\ buy_start(sid, p, x, a)

BuyFinish == \E r \in BagToSet(req), price \in Prices : buy_finish(AllOk, r, price)

RefreshStart ==
    \E sid \in SessionIds, p \in Phones : DrawnRead(sid, p) /\ refresh_start(sid, p)

RefreshFinish ==
    \E r \in BagToSet(req), op \in ReadOps, price \in Prices :
        refresh_finish(AllOk, r, op, price)

ListActivities ==
    \E sid \in SessionIds, p \in Phones : DrawnRead(sid, p) /\ get_my_activities(sid, p)

\* The requests of the ORM variant.
OrmRegister ==
    \E e \in Emails, p \in Phones, w \in Passwords :
        DrawnAccount(e, p) /\ orm_register(e, p, w)

OrmDeposit == \E u \in UserIds, a \in Amounts : orm_deposit_funds(u, a)

OrmWithdraw == \E u \in UserIds, a \in Amounts : orm_withdraw_funds(u, a)

OrmBuy ==
    \E u \in UserIds, x \in AssetIds, a \in Amounts :
        DrawnOrm(a, x) /\ orm_buy_investment(u, x, a)

OrmBalance == \E u \in UserIds : orm_get_wallet_balance(u)

OrmInvestments == \E u \in UserIds : orm_get_my_investments(u)

OrmPnl == \E u \in UserIds : orm_get_current_pnl(u)

OrmListActivities == \E u \in UserIds : orm_get_my_activities(u)

\* Requests overlap: a request may start while others are suspended at the
\* price fetch.
Next ==
    \/ Register
    \/ Deposit
    \/ Withdraw
    \/ BuyStart
    \/ BuyFinish
    \/ RefreshStart
    \/ RefreshFinish
    \/ ListActivities
    \/ OrmRegister
    \/ OrmDeposit
    \/ OrmWithdraw
    \/ OrmBuy
    \/ OrmBalance
    \/ OrmInvestments
    \/ OrmPnl
    \/ OrmListActivities

Spec == Init /\ [][Next]_vars

\* ------------------------------------------------ one request at a time
\* Under SpecSeq a request starts only when no request is suspended: the
\* behaviours are the sequences of requests, each run to its response.
Quiet == req = EmptyBag

SeqRegister == Quiet /\ Register

SeqDeposit == Quiet /\ Deposit

SeqWithdraw == Quiet /\ Withdraw

SeqBuyStart == Quiet /\ BuyStart

SeqRefreshStart == Quiet /\ RefreshStart

SeqListActivities == Quiet /\ ListActivities

NextSeq ==
    \/ SeqRegister
    \/ SeqDeposit
    \/ SeqWithdraw
    \/ SeqBuyStart
    \/ BuyFinish
    \/ SeqRefreshStart
    \/ RefreshFinish
    \/ SeqListActivities
    \/ OrmRegister
    \/ OrmDeposit
    \/ OrmWithdraw
    \/ OrmBuy
    \/ OrmBalance
    \/ OrmInvestments
    \/ OrmPnl
    \/ OrmListActivities

SpecSeq == Init /\ [][NextSeq]_vars

\* ------------------------------------------- failing writes (flat files)
\* save_data catches the exception of a failed write and returns: the file
\* keeps its old content and the handler goes on.  Under SpecFail every file
\* may be unwritable during a request (f says which files take the writes
\* of the request; at most one of the files the handler writes is drawn
\* unwritable), and requests run one at a time, so that what is observed is
\* the effect of the failed write alone.
Faults(written) == {AllOk} \cup {[AllOk EXCEPT ![x] = FALSE] : x \in written}

InitFail == InitWith(MaxFailRequests) /\ impl = "file"

FailRegister ==
    \E f \in Faults({"users", "wallets", "sessions", "activities"}),
       e \in Emails, p \in Phones, w \in Passwords :
        Quiet /\ DrawnAccount(e, p) /\ register(f, e, p, w)

FailDeposit ==
    \E f \in Faults({"wallets", "activities"}),
       sid \in SessionIds, p \in Phones, a \in Amounts :
        Quiet /\ Drawn(sid, p, a, "bitcoin") /\ deposit_funds(f, sid, p, a)

FailWithdraw ==
    \E f \in Faults({"wallets", "activities"}),
       sid \in SessionIds, p \in Phones, a \in Amounts :
        Quiet /\ Drawn(sid, p, a, "bitcoin") /\ withdraw_funds(f, sid, p, a)

FailBuyFinish ==
    \E f \in Faults({"investments", "wallets", "activities"}),
       r \in BagToSet(req), price \in Prices : buy_finish(f, r, price)

FailRefreshFinish ==
    \E f \in Faults({"investments"}),
       r \in BagToSet(req), op \in ReadOps, price \in Prices :
        refresh_finish(f, r, op, price)

NextFail ==
    \/ FailRegister
    \/ FailDeposit
    \/ FailWithdraw
    \/ SeqBuyStart
    \/ FailBuyFinish
    \/ SeqRefreshStart
    \/ FailRefreshFinish

SpecFail == InitFail /\ [][NextFail]_vars

\* ------------------------------- one account buying, depositing and reading
\* Under SpecRace one account of the flat-file variant makes its own
\* requests, with overlap: buys of bitcoin and deposits, each of the signup
\* bonus, and reads.  The behaviours are behaviours of Spec with more
\* requests and fewer inputs.
InitRace == InitWith(MaxRaceRequests) /\ impl = "file"

RaceInputs(sid, phone, amount) ==
    /\ auth_error(sid) = "ok"
    /\ phone = current_user(sid).phone_number
    /\ amount = SignupBonus

RaceRegister == users = EmptyMap /\ Register

RaceDeposit ==
    \E sid \in SessionIds, p \in Phones, a \in Amounts :
        RaceInputs(sid, p, a) /\ deposit_funds(AllOk, sid, p, a)

RaceBuyStart ==
    \E sid \in SessionIds, p \in Phones, a \in Amounts :
        RaceInputs(sid, p, a) /\ buy_start(sid, p, "bitcoin", a)

RaceRefreshStart ==
    \E sid \in SessionIds, p \in Phones :
        RaceInputs(sid, p, SignupBonus) /\ refresh_start(sid, p)

NextRace ==
    \/ RaceRegister
    \/ RaceDeposit
    \/ RaceBuyStart
    \/ BuyFinish
    \/ RaceRefreshStart
    \/ RefreshFinish

SpecRace == InitRace /\ [][NextRace]_vars

\* ------------------------------------- accounts buying and reading their PnL
\* Under SpecPnl the accounts buy bitcoin for one amount, at prices whose
\* ratios are not whole hundredths of a percent, and read their positions
\* and their profit and loss, with overlap.  The ORM variant needs a deposit
\* before a buy, its wallets starting empty.
PnlAmounts == {900}

PnlPrices == {100, 300}

InitPnl ==
    /\ InitWith(MaxPnlRequests)
    /\ impl = "orm" => db_assets \in {generate_dynamic_prices(p) : p \in PnlPrices}

OwnInputs(sid, phone) ==
    /\ auth_error(sid) = "ok"
    /\ phone = current_user(sid).phone_number

PnlBuyStart ==
    \E sid \in SessionIds, p \in Phones, a \in PnlAmounts :
        OwnInputs(sid, p) /\ buy_start(sid, p, "bitcoin", a)

PnlBuyFinish == \E r \in BagToSet(req), price \in PnlPrices : buy_finish(AllOk, r, price)

PnlRefreshStart ==
    \E sid \in SessionIds, p \in Phones : OwnInputs(sid, p) /\ refresh_start(sid, p)

PnlRefreshFinish ==
    \E r \in BagToSet(req), op \in ReadOps, price \in PnlPrices :
        refresh_finish(AllOk, r, op, price)

OrmDepositBonus == \E u \in UserIds : orm_deposit_funds(u, SignupBonus)

PnlOrmBuy == \E u \in UserIds, a \in PnlAmounts : orm_buy_investment(u, "bitcoin", a)

NextPnl ==
    \/ Register
    \/ PnlBuyStart
    \/ PnlBuyFinish
    \/ PnlRefreshStart
    \/ PnlRefreshFinish
    \/ OrmRegister
    \/ OrmDepositBonus
    \/ PnlOrmBuy
    \/ OrmPnl

SpecPnl == InitPnl /\ [][NextPnl]_vars

\* ------------------------------------------ accounts with a long activity log
\* Under SpecHistory the accounts register, and then the first account
\* deposits the amount of the signup bonus, often enough for its log to
\* grow beyond the length a listing returns, and the activities are listed.
InitHistory == InitWith(MaxHistRequests)

\* The registrations come first.
NoneBut(op) == last.op \in {"none", op}

HistRegister == NoneBut("register") /\ Register

HistDeposit ==
    \E p \in Phones : OwnInputs(1, p) /\ deposit_funds(AllOk, 1, p, SignupBonus)

HistOrmRegister == NoneBut("register") /\ OrmRegister

HistOrmDeposit == UserIds # {} /\ orm_deposit_funds(1, SignupBonus)

NextHistory ==
    \/ HistRegister
    \/ HistDeposit
    \/ ListActivities
    \/ HistOrmRegister
    \/ HistOrmDeposit
    \/ OrmListActivities

SpecHistory == InitHistory /\ [][NextHistory]_vars

\* ------------------------------------------------- registrations by phone
\* Under SpecSignup accounts are registered, with a phone number that begins
\* with "+" or with one that does not.
SignupPhones == {"+1", "0712345678"}

InitSignup == InitWith(MaxSignupRequests)

SignupRegister ==
    \E e \in Emails, p \in SignupPhones, w \in Passwords : register(AllOk, e, p, w)

SignupOrmRegister ==
    \E e \in Emails, p \in SignupPhones, w \in Passwords : orm_register(e, p, w)

NextSignup == SignupRegister \/ SignupOrmRegister

SpecSignup == InitSignup /\ [][NextSignup]_vars

\* ------------------------------------------------- logging in and out
\* Under SpecSession the accounts register, log in with the password they
\* registered or with another, log out, and make requests with the session
\* ids issued so far and with one never issued: deposits of the signup
\* bonus, buys of bitcoin for it, reads and listings, with overlap.
LoginPasswords == Passwords \cup {"wrong"}

InitSession == InitWith(MaxSessRequests)

Login == \E e \in Emails, w \in LoginPasswords : login(AllOk, e, w)

Logout == \E sid \in SessionIds : logout(AllOk, sid)

SessRegister == NoneBut("register") /\ Register

SessDeposit ==
    \E sid \in SessionIds, p \in Phones : deposit_funds(AllOk, sid, p, SignupBonus)

SessBuyStart ==
    \E sid \in SessionIds, p \in Phones : buy_start(sid, p, "bitcoin", SignupBonus)

SessRefreshStart == \E sid \in SessionIds, p \in Phones : refresh_start(sid, p)

SessListActivities == \E sid \in SessionIds, p \in Phones : get_my_activities(sid, p)

SessOrmRegister == NoneBut("register") /\ OrmRegister

OrmLogin == \E e \in Emails, w \in LoginPasswords : orm_login(e, w)

NextSession ==
    \/ SessRegister
    \/ Login
    \/ Logout
    \/ SessDeposit
    \/ SessBuyStart
    \/ BuyFinish
    \/ SessRefreshStart
    \/ RefreshFinish
    \/ SessListActivities
    \/ SessOrmRegister
    \/ OrmLogin

SpecSession == InitSession /\ [][NextSession]_vars

\* ================================================================ properties
\* What both variants hold about an account, named by its phone number.

\* The accounts that have a wallet.
Accounts ==
    IF impl = "file" THEN DOMAIN wallets
    ELSE {db_users[db_wallets[w].user_id].phone_number : w \in 1..Len(db_wallets)}

\* The user row of an account of the ORM variant.
UserOf(account) == CHOOSE u \in 1..Len(db_users) : db_users[u].phone_number = account

\* The wallet of an account (the default wallet when it has none).
WalletOf(account) ==
    IF impl = "file" THEN wallet_get(wallets, account)
    ELSE IF account \in Accounts THEN db_wallets[wallet_of(UserOf(account))]
    ELSE DefaultWallet

Balance(account) == WalletOf(account).balance

Equity(account) == WalletOf(account).equity

\* Balance and equity of every account.
Ledger == [a \in Phones |-> [balance |-> Balance(a), equity |-> Equity(a)]]

\* The activity log: one record for each activity, with the account it belongs to.
ActivityLog ==
    IF impl = "file"
    THEN {[id |-> i, account |-> activities[i].user_phone,
           type |-> activities[i].activity_type, amount |-> activities[i].amount,
           status |-> activities[i].status] : i \in DOMAIN activities}
    ELSE {[id |-> i, account |-> db_users[db_activities[i].user_id].phone_number,
           type |-> db_activities[i].activity_type, amount |-> db_activities[i].amount,
           status |-> db_activities[i].status] : i \in 1..Len(db_activities)}

\* The positions: one record for each investment.
Positions ==
    IF impl = "file" THEN {investments[i] : i \in DOMAIN investments}
    ELSE {db_investments[i] : i \in 1..Len(db_investments)}

OpenPositions(account) ==
    {i \in Positions : i.user_phone = account /\ i.status = "active"}

\* A request has been answered in this step: op by account, with the amount.
Answered(op) == last'.n # last.n /\ last'.op = op

\* The request answered in this step passed the session and ownership checks.
Authorized == last'.status \notin {401, 403}

\* ------------------------------------------------------------------ C1
\* C1: in every reachable state the wallet balance of every account is >= 0.
C1_BalanceNonNegative == \A a \in Accounts : Balance(a) >= 0

\* ------------------------------------------------------------------ C2
\* What a logged activity says it did to the balance.  main.py logs the
\* request amount of a withdrawal and of a buy; the ORM variant logs it negated.
Contribution(act) ==
    IF impl = "orm" THEN act.amount
    ELSE IF act.type = "deposit" THEN act.amount
    ELSE IF act.type \in {"withdraw", "investment"} THEN -act.amount
    ELSE 0

RECURSIVE SumContribution(_)
SumContribution(S) ==
    IF S = {} THEN 0
    ELSE LET x == CHOOSE y \in S : TRUE IN Contribution(x) + SumContribution(S \ {x})

\* C2: once all requests have completed, the balance of every account is the
\* sum of its successful deposits (the signup bonus is one) minus the sum of
\* its successful withdrawals and buys: no update is lost.
C2_NoLostUpdate ==
    req = EmptyBag =>
        \A a \in Accounts :
            Balance(a) = SumContribution({x \in ActivityLog : x.account = a})

\* ------------------------------------------------------------------ C3
\* C3: a position that is active stays in the position store, active, in
\* every later state.
C3_ActivePositionsStay ==
    [][\A x \in Positions :
          x.status = "active" =>
              \E y \in Positions' :
                  y.id = x.id /\ y.user_phone = x.user_phone /\ y.status = "active"]_vars

\* ------------------------------------------------------------------ C4
\* C4: in every reachable state the equity of every account is its balance
\* plus the sum of the current values of its open positions.
C4_EquityIsBalancePlusPositions ==
    \A a \in Accounts :
        Equity(a) = Balance(a) + SumField(OpenPositions(a), "current_value")

\* ------------------------------------------------------------------ C5
\* C5: a buy is all or nothing, also when a write fails: the step that
\* answers a buy either reports success, having added the position and
\* debited the balance, or reports a failure and leaves positions and
\* wallets as they were.
C5_BuyAllOrNothing ==
    [][\A acc \in Phones, a \in Amounts :
          (Answered("buy") /\ last'.account = acc /\ last'.amount = a) =>
              \/ /\ last'.status = 200
                 /\ \E y \in Positions' \ Positions :
                        y.user_phone = acc /\ y.invested_amount = a
                 /\ Balance(acc)' = Balance(acc) - a
              \/ /\ last'.status # 200
                 /\ Positions' = Positions
                 /\ Ledger' = Ledger]_vars

\* ------------------------------------------------------------------ C6
Abs(x) == IF x < 0 THEN -x ELSE x

BalanceActivities == {"deposit", "withdraw", "investment"}

\* C6: in every step, the balance of an account changes only together with
\* exactly one new deposit/withdraw/investment Activity of that account, and
\* every such new Activity comes with the balance change of its amount; so
\* the committed balance changes and the Activities stay paired.
C6_BalanceChangePairedWithActivity ==
    [][\A acc \in Phones :
          LET new == {x \in ActivityLog' \ ActivityLog :
                          x.account = acc /\ x.type \in BalanceActivities}
          IN /\ Balance(acc)' # Balance(acc) => Cardinality(new) = 1
             /\ \A x \in new : Abs(Balance(acc)' - Balance(acc)) = Abs(x.amount)]_vars

\* ------------------------------------------------------------------ C7
\* C7 as stated: an authorized withdraw of more than the balance fails with
\* "Insufficient balance" and leaves balances, equities and the activity log
\* unchanged; a withdraw of exactly the balance is accepted.
C7_WithdrawOverBalance ==
    [][\A acc \in Phones, a \in Amounts :
          (Answered("withdraw") /\ Authorized /\ last'.account = acc /\ last'.amount = a) =>
              /\ a > Balance(acc) =>
                     /\ last'.status = 400
                     /\ last'.detail = "Insufficient balance"
                     /\ Ledger' = Ledger
                     /\ ActivityLog' = ActivityLog
              /\ a = Balance(acc) => last'.status = 200]_vars

\* C7 amended: as C7, with the withdraw of exactly the balance accepted when
\* the amount is greater than 0.
C7_WithdrawOverBalanceAmended ==
    [][\A acc \in Phones, a \in Amounts :
          (Answered("withdraw") /\ Authorized /\ last'.account = acc /\ last'.amount = a) =>
              /\ a > Balance(acc) =>
                     /\ last'.status = 400
                     /\ last'.detail = "Insufficient balance"
                     /\ Ledger' = Ledger
                     /\ ActivityLog' = ActivityLog
              /\ (a = Balance(acc) /\ a > 0) =>
                     /\ last'.status = 200
                     /\ Balance(acc)' = 0]_vars

\* A withdraw of more than the balance has been rejected.
C7_Witness ==
    /\ last.op = "withdraw"
    /\ last.status = 400
    /\ last.detail = "Insufficient balance"
    /\ last.amount > Balance(last.account)

\* ------------------------------------------------------------------ C8
\* C8: an authorized deposit of an amount <= 0 is rejected and leaves
\* balances, equities and the activity log unchanged.
C8_DepositRejectsNonPositive ==
    [][\A acc \in Phones, a \in Amounts :
          (Answered("deposit") /\ Authorized /\ last'.account = acc /\ last'.amount = a
           /\ a <= 0) =>
              /\ last'.status = 400
              /\ Ledger' = Ledger
              /\ ActivityLog' = ActivityLog]_vars

\* ------------------------------------------------------------------ C9
\* C9: an authorized withdraw of an amount <= 0 is rejected and leaves
\* balances, equities and the activity log unchanged, and no withdraw
\* increases the balance.
C9_WithdrawRejectsNonPositive ==
    [][\A acc \in Phones, a \in Amounts :
          (Answered("withdraw") /\ Authorized /\ last'.account = acc /\ last'.amount = a) =>
              /\ a <= 0 =>
                     /\ last'.status = 400
                     /\ Ledger' = Ledger
                     /\ ActivityLog' = ActivityLog
              /\ Balance(acc)' <= Balance(acc)]_vars

\* ------------------------------------------------------------------ C10
\* C10: a successful deposit of a > 0 adds a to the balance and to the equity
\* of the account, appends exactly one Activity, of type deposit, amount +a,
\* for that account, and returns the new balance.
C10_DepositEffect ==
    [][\A acc \in Phones, a \in Amounts :
          (Answered("deposit") /\ last'.status = 200 /\ last'.account = acc
           /\ last'.amount = a /\ a > 0) =>
              /\ Balance(acc)' = Balance(acc) + a
              /\ Equity(acc)' = Equity(acc) + a
              /\ \E x \in ActivityLog' :
                     /\ x \notin ActivityLog
                     /\ ActivityLog' = ActivityLog \cup {x}
                     /\ x.account = acc /\ x.type = "deposit" /\ x.amount = a
              /\ last'.new_balance = Balance(acc)']_vars

\* A deposit of a > 0 has succeeded and its response is the last one.
C10_Witness ==
    /\ last.op = "deposit"
    /\ last.status = 200
    /\ last.amount > 0
    /\ last.new_balance = Balance(last.account)
    /\ \E x \in ActivityLog :
           x.account = last.account /\ x.type = "deposit" /\ x.amount = last.amount

\* ------------------------------------------------------------------ C11
\* C11: a successful withdraw of a subtracts a from the balance and from the
\* equity of the account and appends exactly one Activity, of type withdraw,
\* for that account, whose amount is -a.
C11_WithdrawEffect ==
    [][\A acc \in Phones, a \in Amounts :
          (Answered("withdraw") /\ last'.status = 200 /\ last'.account = acc
           /\ last'.amount = a) =>
              /\ Balance(acc)' = Balance(acc) - a
              /\ Equity(acc)' = Equity(acc) - a
              /\ \E x \in ActivityLog' :
                     /\ x \notin ActivityLog
                     /\ ActivityLog' = ActivityLog \cup {x}
                     /\ x.account = acc /\ x.type = "withdraw" /\ x.amount = -a]_vars

\* ------------------------------------------------------------------ C12
\* C12: a successful buy of a subtracts a from the balance of the account and
\* adds exactly one position, owned by the account, with invested amount a,
\* units = a / entry price, current price = entry price, current value a,
\* profit/loss 0 and status active.
C12_BuyEffect ==
    [][\A acc \in Phones, a \in Amounts :
          (Answered("buy") /\ last'.status = 200 /\ last'.account = acc
           /\ last'.amount = a) =>
              /\ Balance(acc)' = Balance(acc) - a
              /\ \E y \in Positions' :
                     /\ y \notin Positions
                     /\ Positions' = Positions \cup {y}
                     /\ y.user_phone = acc
                     /\ y.invested_amount = a
                     /\ y.entry_price > 0
                     /\ y.units * y.entry_price = a
                     /\ y.current_price = y.entry_price
                     /\ y.current_value = a
                     /\ y.profit_loss = 0
                     /\ y.status = "active"]_vars

\* ------------------------------------------------------------------ C13
\* C13: a successful buy of a appends exactly one Activity, of type
\* investment, for the buying account, whose amount is -a.
C13_BuyActivity ==
    [][\A acc \in Phones, a \in Amounts :
          (Answered("buy") /\ last'.status = 200 /\ last'.account = acc
           /\ last'.amount = a) =>
              \E x \in ActivityLog' :
                  /\ x \notin ActivityLog
                  /\ ActivityLog' = ActivityLog \cup {x}
                  /\ x.account = acc /\ x.type = "investment" /\ x.amount = -a]_vars

\* ------------------------------------------------------------------ C14
Currency(account) == WalletOf(account).currency

\* C14: a successful buy leaves the equity and the currency of the account
\* as they were, and leaves every existing position as it was.
C14_BuyDebitsBalanceOnly ==
    [][\A acc \in Phones :
          (Answered("buy") /\ last'.status = 200 /\ last'.account = acc) =>
              /\ Equity(acc)' = Equity(acc)
              /\ Currency(acc)' = Currency(acc)
              /\ \A y \in Positions : y \in Positions']_vars

\* ------------------------------------------------------------------ C15
\* A rejected request left the wallets, the positions and the activity log
\* as they were.
NothingChanged ==
    /\ Ledger' = Ledger
    /\ Positions' = Positions
    /\ ActivityLog' = ActivityLog

\* C15: an authorized buy of a catalog asset with an amount below the
\* minimum investment of the asset is rejected with "Minimum investment",
\* whatever the balance, and changes nothing.
C15_BelowMinimumInvestment ==
    [][\A acc \in Phones, a \in Amounts, x \in DOMAIN Catalog :
          (Answered("buy") /\ Authorized /\ last'.account = acc /\ last'.amount = a
           /\ last'.asset = x /\ a < Catalog[x].min_investment) =>
              /\ last'.status = 400
              /\ last'.detail = "Minimum investment"
              /\ NothingChanged]_vars

\* ------------------------------------------------------------------ C16
\* C16: an authorized buy with an amount greater than the balance of the
\* account is rejected and changes nothing (no position, no debit, no
\* Activity); the error is "Insufficient balance" when nothing else is wrong
\* with the request (catalog asset, amount not below its minimum).
C16_BuyOverBalance ==
    [][\A acc \in Phones, a \in Amounts, x \in AssetIds :
          (Answered("buy") /\ Authorized /\ last'.account = acc /\ last'.amount = a
           /\ last'.asset = x /\ a > Balance(acc)) =>
              /\ last'.status # 200
              /\ (x \in DOMAIN Catalog /\ a >= Catalog[x].min_investment) =>
                     (last'.status = 400 /\ last'.detail = "Insufficient balance")
              /\ NothingChanged]_vars

\* ------------------------------------------------------------------ C17
\* C17: a buy against an asset whose current price is not > 0 (a row of the
\* assets table, ORM variant) that is otherwise acceptable is rejected as a
\* validation error, "Invalid asset price", and changes nothing; and no step
\* leaves a position with entry price <= 0.
C17_InvalidAssetPrice ==
    [][/\ \A acc \in Phones, a \in Amounts, x \in DOMAIN Catalog :
             (impl = "orm" /\ Answered("buy") /\ last'.account = acc /\ last'.amount = a
              /\ last'.asset = x /\ db_assets[x].current_price <= 0
              /\ a >= db_assets[x].min_investment /\ a <= Balance(acc)) =>
                 /\ last'.status = 400
                 /\ last'.detail = "Invalid asset price"
                 /\ NothingChanged
       /\ \A y \in Positions' : y.entry_price > 0]_vars

\* ------------------------------------------------------------------ C18
\* C18: an authorized buy naming an asset id that is not in the catalog is
\* rejected with 404 "Asset not found", for every amount and balance, and
\* changes nothing.
C18_AssetNotFound ==
    [][\A acc \in Phones, a \in Amounts, x \in AssetIds \ DOMAIN Catalog :
          (Answered("buy") /\ Authorized /\ last'.account = acc /\ last'.amount = a
           /\ last'.asset = x) =>
              /\ last'.status = 404
              /\ last'.detail = "Asset not found"
              /\ NothingChanged]_vars

\* ------------------------------------------------------------------ C19
\* C19: in every step, every position keeps its unit count, invested amount
\* and entry price (and its owner, asset and status): a position is
\* identified by its id, and only its current price, current value,
\* profit/loss and profit/loss percentage may differ after the step.
C19_UnitsImmutable ==
    [][\A x \in Positions, y \in Positions' :
          y.id = x.id =>
              /\ y.units = x.units
              /\ y.invested_amount = x.invested_amount
              /\ y.entry_price = x.entry_price
              /\ y.user_phone = x.user_phone
              /\ y.asset_id = x.asset_id
              /\ y.status = x.status]_vars

\* ------------------------------------------------------------------ C20
\* The derived fields of a position agree with its unit count and price p.
Revalued(y, p) ==
    /\ y.current_price = p
    /\ y.current_value = y.units * p
    /\ y.profit_loss = y.current_value - y.invested_amount
    /\ y.profit_loss_percentage * y.invested_amount = y.profit_loss * 100

\* C20: when a valuation refresh of an account completes with the supplied
\* price p, every open position of the account has current price p, current
\* value units * p, profit/loss = current value - invested amount and
\* profit/loss percentage = profit/loss / invested amount * 100.
C20_RevalueFields ==
    [][\A acc \in Phones, op \in ReadOps :
          (Answered(op) /\ last'.status = 200 /\ last'.account = acc) =>
              \E p \in Prices : \A y \in OpenPositions(acc)' : Revalued(y, p)]_vars

\* A refresh has revalued an open position at a price other than its entry
\* price.
C20_Witness ==
    /\ last.op \in ReadOps
    /\ last.status = 200
    /\ \E y \in OpenPositions(last.account) :
           /\ y.current_price # y.entry_price
           /\ y.profit_loss # 0
           /\ Revalued(y, y.current_price)

\* ------------------------------------------------------------------ C21
\* C21: revalue is idempotent: for every position of every reachable state
\* and every price, revaluing the revalued position again at the same price
\* gives the position the first revalue gave, field for field.
C21_RevalueIdempotent ==
    \A y \in Positions, p \in Prices : revalue(revalue(y, p), p) = revalue(y, p)

\* A position on file has been revalued at a price other than its entry
\* price, and a second revalue at that price leaves it as it is.
C21_Witness ==
    \E y \in Positions :
        /\ impl = "file"
        /\ y.current_price # y.entry_price
        /\ y.profit_loss # 0
        /\ revalue(y, y.current_price) = y

\* ------------------------------------------------------------------ C22
\* The total of a field over the open positions of an account.
Total(account, field) == SumField(OpenPositions(account), field)

\* C22: a read of the positions or of the profit and loss returns figures
\* computed from the prices fetched during the call: every position the
\* listing returns is the position as the refresh of the call left it, and
\* the profit and loss returned is that of the refreshed positions.
C22_RefreshBeforeRead ==
    [][\A acc \in Phones :
          /\ (Answered("investments") /\ last'.account = acc /\ last'.status = 200)
                => last'.positions \subseteq Positions'
          /\ (Answered("pnl") /\ last'.account = acc /\ last'.status = 200)
                => last'.pnl.profit_loss =
                       (Total(acc, "current_value") - Total(acc, "invested_amount"))'
      ]_vars

\* ------------------------------------------------------------------ C23
\* C23: the profit and loss returned for an account whose open positions
\* have a total invested amount of 0 (an account without open positions
\* among them) is profit_loss 0, percentage 0 and trend "neutral".
C23_PnlOfNothingInvested ==
    [][\A acc \in Phones :
          (/\ Answered("pnl") /\ last'.account = acc /\ last'.status = 200
           /\ Total(acc, "invested_amount")' = 0)
          => /\ last'.pnl.profit_loss = 0
             /\ last'.pnl.percentage.num = 0
             /\ last'.pnl.trend = "neutral"
      ]_vars

\* ------------------------------------------------------------------ C24
\* The profit and loss returned in this step for acc, which has money
\* invested in open positions: the profit is the total current value less
\* the total invested, over the open positions of acc and no others, and the
\* trend is "up" for a profit >= 0 and "down" otherwise.
PnlSums(acc) ==
    /\ last'.pnl.profit_loss =
           (Total(acc, "current_value") - Total(acc, "invested_amount"))'
    /\ last'.pnl.trend = IF last'.pnl.profit_loss >= 0 THEN "up" ELSE "down"

PnlAnswered(acc) ==
    /\ Answered("pnl") /\ last'.account = acc /\ last'.status = 200
    /\ Total(acc, "invested_amount")' > 0

\* C24 as stated: and the percentage returned is profit / invested * 100.
C24_PnlOfInvested ==
    [][\A acc \in Phones :
          PnlAnswered(acc)
          => /\ PnlSums(acc)
             /\ last'.pnl.percentage.num * Total(acc, "invested_amount")'
                    = last'.pnl.profit_loss * 100 * last'.pnl.percentage.den
      ]_vars

\* C24 amended: and the percentage returned is profit / invested * 100 to
\* the nearest hundredth: it is at most 0.005 away from the quotient.
C24_PnlOfInvestedRounded ==
    [][\A acc \in Phones :
          PnlAnswered(acc)
          => /\ PnlSums(acc)
             /\ 200 * Abs(last'.pnl.percentage.num * Total(acc, "invested_amount")'
                          - last'.pnl.profit_loss * 100 * last'.pnl.percentage.den)
                    <= last'.pnl.percentage.den * Total(acc, "invested_amount")'
      ]_vars

\* A profit and loss has been returned to an account with a loss, whose
\* percentage is not a whole number of hundredths, while the other account
\* holds a position too.
C24_Witness ==
    /\ last.op = "pnl" /\ last.status = 200
    /\ last.pnl.trend = "down"
    /\ last.pnl.profit_loss = Total(last.account, "current_value")
                                  - Total(last.account, "invested_amount")
    /\ last.pnl.percentage.num * Total(last.account, "invested_amount")
           # last.pnl.profit_loss * 100 * last.pnl.percentage.den
    /\ \E y \in Positions : y.user_phone # last.account /\ y.status = "active"

\* ------------------------------------------------------------------ C25
\* The investment of the successful buy of acc that the listing answered in
\* this step came immediately after: the listing was requested when the
\* response to that buy was the last response sent.
JustBought(acc) ==
    IF impl = "file"
    THEN UNION {r.follows : r \in {x \in BagToSet(req) :
                    /\ CopiesIn(x, req') < CopiesIn(x, req)
                    /\ x.pc = "refresh" /\ x.phone = acc}}
    ELSE IF last.op = "buy" /\ last.status = 200 /\ last.account = acc
         THEN last.positions ELSE {}

\* C25: a listing of the open positions of an account requested immediately
\* after a successful buy of that account returns the new position, with a
\* profit and loss of 0 and a current value equal to the invested amount.
C25_ListAfterBuy ==
    [][\A acc \in Phones :
          (Answered("investments") /\ last'.account = acc /\ last'.status = 200)
          => \A x \in JustBought(acc) :
                 \E y \in last'.positions :
                     /\ y.id = x.id
                     /\ y.user_phone = acc
                     /\ y.invested_amount = x.invested_amount
                     /\ y.profit_loss = 0
                     /\ y.current_value = y.invested_amount
      ]_vars

\* The third response, after those of the registration and of the buy, is a
\* listing that returns the position at its entry values while the file
\* holds the position revalued at another price: the listing followed the
\* buy and its price fetch returned a new price.
C25_Witness ==
    /\ last.op = "investments" /\ last.status = 200 /\ last.n = 3
    /\ \E y \in last.positions, z \in Positions :
           /\ z.id = y.id
           /\ z.user_phone = last.account
           /\ y.profit_loss = 0 /\ y.current_value = y.invested_amount
           /\ z.current_price # z.entry_price

\* ------------------------------------------------------------------ C26
\* The ids of the activity log.
ActivityIds == {x.id : x \in ActivityLog}

\* The highest id of the log, 0 for an empty log.
MaxActivityId == IF ActivityIds = {} THEN 0 ELSE Max(ActivityIds)

\* C26: every activity a step appends gets an id greater than every id of
\* the log before the step, the ids it appends being max + 1, max + 2, ...
\* (1, 2, ... for an empty log), whichever accounts the activities belong to;
\* no two activities of the log have the same id, and an activity of the
\* flat file is stored under its id.
C26_ActivityIds ==
    [][/\ \A x \in ActivityLog' \ ActivityLog : x.id > MaxActivityId
       /\ ActivityIds' \ ActivityIds =
              (MaxActivityId + 1)..(MaxActivityId + Cardinality(ActivityLog' \ ActivityLog))
       /\ \A x, y \in ActivityLog' : x.id = y.id => x = y
       /\ impl = "file" => \A i \in DOMAIN activities' : activities'[i].id = i
      ]_vars

\* Both accounts have activities in the log, whose ids are 1..n, n >= 5,
\* the last one appended by a buy.
C26_Witness ==
    /\ Cardinality(ActivityLog) >= 5
    /\ ActivityIds = 1..Cardinality(ActivityLog)
    /\ \E x \in ActivityLog : x.id = MaxActivityId /\ x.type = "investment"
    /\ \E x, y \in ActivityLog : x.account # y.account /\ x.id + 1 = y.id

\* ------------------------------------------------------------------ C27
\* The activities as they are stored, with every field.
ActivityRecords ==
    IF impl = "file" THEN {activities[i] : i \in DOMAIN activities}
    ELSE {[id |-> i, row |-> db_activities[i]] : i \in 1..Len(db_activities)}

\* C27: the activity log is append-only: every activity of the log is in
\* the log after every step, with every field as it was, whatever requests
\* run and however they overlap.
C27_AppendOnly == [][ActivityRecords \subseteq ActivityRecords']_vars

\* The log holds the activities of the registration of an account, and
\* after them activities of a deposit, a withdrawal and a buy.
C27_Witness ==
    /\ \E x \in ActivityLog : x.id = 1 /\ x.type = "registration"
    /\ \E x, y, z \in ActivityLog :
           /\ x.id > 2 /\ x.type = "deposit"
           /\ y.id > 2 /\ y.type = "withdraw"
           /\ z.id > 2 /\ z.type = "investment"

\* ------------------------------------------------------------------ C28
\* When an activity was appended: its timestamp in the flat file, and the
\* order of insertion (of created_at) in the table.
ActivityTime(id) == IF impl = "file" THEN activities[id].timestamp ELSE id

\* C28: a listing of the activities of an account returns activities of
\* that account only, the latest first, and as many as the account has or
\* as the limit allows, whichever is less: the most recent ones.
C28_ListRecent ==
    [][\A acc \in Phones :
          (Answered("activities") /\ last'.account = acc /\ last'.status = 200)
          => LET listed == last'.activities
                 mine == {x.id : x \in {y \in ActivityLog : y.account = acc}}
                 ids == {listed[k].id : k \in 1..Len(listed)}
             IN /\ ids \subseteq mine
                /\ \A j, k \in 1..Len(listed) :
                       j < k => ActivityTime(listed[j].id) > ActivityTime(listed[k].id)
                /\ Len(listed) = IF Cardinality(mine) < ActivityLimit
                                 THEN Cardinality(mine) ELSE ActivityLimit
                /\ \A i \in mine \ ids, k \in ids : ActivityTime(i) < ActivityTime(k)
      ]_vars

\* ------------------------------------------------------------------ C29
\* The accounts: the email and the phone number of every user.
AccountRows ==
    IF impl = "file"
    THEN {[email |-> e, phone |-> users[e].phone_number] : e \in DOMAIN users}
    ELSE {[email |-> db_users[i].email, phone |-> db_users[i].phone_number] :
              i \in 1..Len(db_users)}

\* The answers that stand for DuplicateAccount.
DuplicateAccount ==
    {"Email already registered", "Phone number already registered",
     "User with this email or phone number already exists"}

\* C29: a registration with the email or the phone number of an account is
\* rejected with DuplicateAccount and changes nothing: no user, wallet,
\* session or activity is created and no wallet is reset; and no two
\* accounts ever have the same email or the same phone number.
C29_DuplicateRegister ==
    [][/\ \A e \in Emails, p \in Phones :
            (/\ Answered("register") /\ last'.email = e /\ last'.account = p
             /\ \E x \in AccountRows : x.email = e \/ x.phone = p)
            => /\ last'.status = 400
               /\ last'.detail \in DuplicateAccount
               /\ NothingChanged
               /\ UNCHANGED <<users, wallets, sessions, next_sid, activities,
                              db_users, db_wallets, db_activities>>
       /\ \A x, y \in AccountRows' :
              x # y => x.email # y.email /\ x.phone # y.phone
       /\ Cardinality(AccountRows') =
              IF impl = "file" THEN Cardinality(DOMAIN users') ELSE Len(db_users')
      ]_vars

\* An account whose balance has changed since it registered has been named
\* in a registration, by its phone number with another email, which was
\* rejected: its balance is not that of a new wallet.
C29_Witness ==
    /\ impl = "file"
    /\ last.op = "register" /\ last.status = 400
    /\ last.detail = "Phone number already registered"
    /\ last.account \in Accounts
    /\ Balance(last.account) \notin {0, SignupBonus}

\* ------------------------------------------------------------------ C30
\* C30: a registration with a phone number that does not begin with "+" is
\* rejected, and creates no user, wallet, session or activity.
C30_PhoneWithoutPlus ==
    [][\A p \in SignupPhones :
          (Answered("register") /\ last'.account = p /\ ~phone_validation(p))
          => /\ last'.status # 200
             /\ UNCHANGED <<users, wallets, sessions, next_sid, activities,
                            db_users, db_wallets, db_activities>>
      ]_vars

\* ------------------------------------------------------------------ C31
\* The starting balance of a wallet: 5000 in main.py, 0 in routes/auth.py.
StartingBalance == IF impl = "file" THEN SignupBonus ELSE 0

\* The activities of a type that a step appends for an account.
Appended(acc, type) ==
    {x \in ActivityLog' \ ActivityLog : x.account = acc /\ x.type = type}

\* C31: a successful registration creates the wallet of the account with
\* balance = equity = the starting balance, and appends exactly one
\* "registration" activity for the account and, when the starting balance
\* is > 0, exactly one "deposit" activity, of that amount (none when it is 0).
C31_RegisterEffect ==
    [][\A acc \in Phones :
          (Answered("register") /\ last'.account = acc /\ last'.status = 200)
          => /\ acc \in Accounts'
             /\ Balance(acc)' = StartingBalance
             /\ Equity(acc)' = StartingBalance
             /\ Cardinality(Appended(acc, "registration")) = 1
             /\ Cardinality(Appended(acc, "deposit")) =
                    IF StartingBalance > 0 THEN 1 ELSE 0
             /\ \A x \in Appended(acc, "deposit") : x.amount = StartingBalance
      ]_vars

\* ------------------------------------------------------------------ C32
\* The stored credential of the account of email is that of password.
CredentialMatches(email, password) ==
    IF impl = "file"
    THEN /\ email \in DOMAIN users
         /\ users[email].hashed_password = get_password_hash(password)
    ELSE \E i \in 1..Len(db_users) :
             /\ db_users[i].email = email
             /\ db_users[i].hashed_password = get_password_hash(password)

\* C32: a login with an unknown email, or with a password that does not
\* match the stored credential, fails with "Incorrect email or password",
\* creates no session and changes no user, wallet, position or activity.
C32_LoginFails ==
    [][\A e \in Emails, w \in LoginPasswords :
          ((login(AllOk, e, w) \/ orm_login(e, w)) /\ ~CredentialMatches(e, w))
          => /\ last'.op = "login"
             /\ last'.status = 401
             /\ last'.detail = "Incorrect email or password"
             /\ UNCHANGED <<users, sessions, next_sid, wallets, investments,
                            activities, dbVars>>
      ]_vars

\* The login of a registered account with another password than the one it
\* registered has been refused, while a session of the account exists.
C32_Witness ==
    /\ last.op = "login" /\ last.status = 401
    /\ last.account \in Phones
    /\ \/ \E sid \in DOMAIN sessions : sessions[sid].phone_number = last.account
       \/ \E i \in 1..Len(db_users) : db_users[i].phone_number = last.account

\* ------------------------------------------------------------------ C33
\* This step is the arrival of a request with session sid that names the
\* account of phone: a deposit, a withdrawal, a buy, a read or a listing.
Requested(sid, phone) ==
    \/ \E a \in Amounts : deposit_funds(AllOk, sid, phone, a)
    \/ \E a \in Amounts : withdraw_funds(AllOk, sid, phone, a)
    \/ \E a \in Amounts, x \in AssetIds : buy_start(sid, phone, x, a)
    \/ refresh_start(sid, phone)
    \/ get_my_activities(sid, phone)

\* C33: a request with the session of one account that names another
\* account is answered 403 Unauthorized when it arrives, returns nothing of
\* the account it names and changes no wallet, position or activity.
C33_OwnResourcesOnly ==
    [][\A sid \in SessionIds, p \in Phones :
          (/\ auth_error(sid) = "ok"
           /\ current_user(sid).phone_number # p
           /\ Requested(sid, p))
          => /\ last'.n # last.n
             /\ last'.status = 403
             /\ last'.positions = {} /\ last'.activities = << >> /\ last'.pnl = NoPnl
             /\ NothingChanged
             /\ UNCHANGED req
      ]_vars

\* ================================================ the price source (main.py)
\* The number of price listings requested under SpecPrices.
MaxPriceRequests == 4

\* The catalog the price source walks, one asset of each type it
\* distinguishes; the coingecko id of a crypto asset is its id.
PRODUCTION_ASSETS ==
    [bitcoin |-> [name |-> "Bitcoin", type |-> "crypto", min_investment |-> 700],
     eurusd  |-> [name |-> "EUR/USD", type |-> "forex", min_investment |-> 700],
     apple   |-> [name |-> "Apple", type |-> "stocks", min_investment |-> 700],
     gold    |-> [name |-> "Gold", type |-> "commodities", min_investment |-> 700]]

\* Line 121: the conversion rate applied to a live quote.
usd_to_kes == 130

\* Quotes in USD the live service may answer for a coin.
LiveQuotes == {1, 2}

\* What session.get(url) may do: raise (no connection, timeout, a body that
\* is not JSON), or answer with a status and the quotes of the coins it knows.
FetchOutcomes ==
    {[raised |-> TRUE, status |-> 0, data |-> EmptyMap]}
    \cup {[raised |-> FALSE, status |-> s, data |-> d] :
             s \in {200, 503},
             d \in {EmptyMap} \cup {[c \in {"bitcoin"} |-> q] : q \in LiveQuotes}}

\* How a block of statements ends: by raising, by returning a value, or by
\* running to its end.
Raise == [raised |-> TRUE, returned |-> FALSE, value |-> 0]
Return(v) == [raised |-> FALSE, returned |-> TRUE, value |-> v]
Pass == [raised |-> FALSE, returned |-> FALSE, value |-> 0]

\* try: body, with no handler: what body raises leaves the function.
propagate(body, handler) == body

\* try: body / except Exception: handler.
try_except(body, handler) == IF body.raised THEN handler ELSE body

\* The statements after a block run when the block neither raised nor returned.
followed_by(block, rest) == IF block.raised \/ block.returned THEN block ELSE rest

\* Lines 104-138.  response is what the live service did, draw the price
\* the simulation draws for the asset.
fetch_real_crypto_price(coin_id, response, draw) ==
    followed_by(
        try_except(IF response.raised
                   THEN Raise
                   ELSE IF response.status = 200 /\ coin_id \in DOMAIN response.data
                        THEN Return(response.data[coin_id] * usd_to_kes)
                        ELSE Pass,
                   Pass),
        Return(draw))

\* Lines 140-219: fetch_real_forex_price, fetch_real_stock_price and
\* fetch_real_commodity_price draw a simulated price, in the try block and
\* in its handler alike.
fetch_simulated_price(draw) == try_except(Return(draw), Return(draw))

\* An entry of the list of assets with prices.
price_entry(a, price) ==
    [id |-> a, name |-> PRODUCTION_ASSETS[a].name,
     min_investment |-> PRODUCTION_ASSETS[a].min_investment,
     current_price |-> price]

\* Lines 221-323: a task for each asset, then an entry for each task; a
\* task that raises gets the entry of the handler of lines 295-321.
generate_real_time_prices(response, draws) ==
    LET task(a) ==
            IF PRODUCTION_ASSETS[a].type = "crypto"
            THEN fetch_real_crypto_price(a, response, draws[a])
            ELSE fetch_simulated_price(draws[a])
        entry(a) ==
            try_except(IF task(a).raised THEN Raise
                       ELSE Return(price_entry(a, task(a).value)),
                       Return(price_entry(a, draws[a])))
    IN IF \E a \in DOMAIN PRODUCTION_ASSETS : entry(a).raised
       THEN Raise
       ELSE Return([a \in DOMAIN PRODUCTION_ASSETS |-> entry(a).value])

\* Lines 334-390.
generate_fallback_prices(draws) ==
    Return([a \in DOMAIN PRODUCTION_ASSETS |-> price_entry(a, draws[a])])

\* Lines 325-332: generate_dynamic_prices, from what the live service did
\* and what the simulation draws.
generate_dynamic_prices_fetched(response, draws) ==
    try_except(generate_real_time_prices(response, draws),
               generate_fallback_prices(draws))

\* Lines 823-826 and 890-892: get_market_assets and get_assets_alt, public.
\* An exception leaving the handler is answered 500 by the framework.
get_market_assets(response, draws) ==
    /\ StartFile
    /\ UNCHANGED <<fileVars>>
    /\ LET assets == generate_dynamic_prices_fetched(response, draws)
       IN last' = IF assets.raised
                  THEN Response("assets", "none", 0, 500, "Internal Server Error", 0, 0)
                  ELSE [Response("assets", "none", 0, 200, "ok", 0, 0)
                           EXCEPT !.assets = assets.value]

\* Under SpecPrices the flat-file service is asked for the market only.
InitPrices == InitWith(MaxPriceRequests) /\ impl = "file"

GetMarketAssets ==
    \E response \in FetchOutcomes, draws \in [DOMAIN PRODUCTION_ASSETS -> Prices] :
        get_market_assets(response, draws)

NextPrices == GetMarketAssets

SpecPrices == InitPrices /\ [][NextPrices]_vars

\* The live fetch of a coin failed: it raised, answered another status than
\* 200, or answered without the coin.
FetchFailed(response, coin_id) ==
    \/ response.raised
    \/ response.status # 200
    \/ coin_id \notin DOMAIN response.data

\* C34: whatever the live price service does, a request for the market is
\* answered 200 with one entry for every catalog asset and changes nothing
\* stored; when the live fetch of a coin failed, the entry of the coin holds
\* the price the simulation drew for it, and when it succeeded, the live
\* quote converted to KES; an asset without live fetch holds its simulated
\* price.
C34_PriceFetchFallback ==
    [][\A response \in FetchOutcomes, draws \in [DOMAIN PRODUCTION_ASSETS -> Prices] :
          get_market_assets(response, draws)
          => /\ last'.n # last.n /\ last'.op = "assets" /\ last'.status = 200
             /\ DOMAIN last'.assets = DOMAIN PRODUCTION_ASSETS
             /\ \A a \in DOMAIN PRODUCTION_ASSETS :
                   last'.assets[a].current_price =
                       IF PRODUCTION_ASSETS[a].type = "crypto" /\ ~FetchFailed(response, a)
                       THEN response.data[a] * usd_to_kes
                       ELSE draws[a]
             /\ UNCHANGED fileVars
      ]_vars

\* A listing of the market answered after an earlier one, in which the coin
\* holds a simulated price (no live quote converts to such a price) and
\* every other asset a price too.
C34_Witness ==
    /\ last.op = "assets" /\ last.n >= 2 /\ last.status = 200
    /\ last.assets["bitcoin"].current_price \in Prices
    /\ last.assets["bitcoin"].current_price \notin {q * usd_to_kes : q \in LiveQuotes}
    /\ \A a \in DOMAIN PRODUCTION_ASSETS : last.assets[a].current_price > 0

\* ------------------------------------------------------------------ C35
\* The positions stored for an account in the investments file.
StoredPositions(account) ==
    {investments[i] : i \in {j \in DOMAIN investments : investments[j].user_phone = account}}

\* C35: in the flat-file service, in every state, the stored equity of each
\* account less its stored balance is the sum of the invested amounts of the
\* positions stored for the account.
C35_MoneyConserved ==
    impl = "file" =>
        \A acc \in DOMAIN wallets :
            wallets[acc].equity - wallets[acc].balance
                = SumField(StoredPositions(acc), "invested_amount")

\* ------------------------------------------------------------------ C36
\* What the wallets and investments files store for an account.
StoredWallet(account) ==
    IF account \in DOMAIN wallets THEN {wallets[account]} ELSE {}

StoredFor(account) == <<StoredWallet(account), StoredPositions(account)>>

\* C36: the step in which a buy or a refresh made for one account resumes
\* from its price fetch and writes its state back leaves the stored wallet
\* and the stored positions of every other account as they were, whatever
\* the other accounts did while the request was suspended.
C36_OtherAccountsUntouched ==
    [][\A r \in BagToSet(req), price \in Prices :
          (\/ buy_finish(AllOk, r, price)
           \/ \E op \in ReadOps : refresh_finish(AllOk, r, op, price))
          => \A other \in Phones \ {r.phone} : StoredFor(other)' = StoredFor(other)
      ]_vars

\* ------------------------------------------------------------------ C37
\* A step of a read made for an account: the start or the end of
\* get_wallet_balance, get_user_pnl or get_my_investments, a listing of the
\* activities, or one of the reads of the ORM variant.
ReadStep(acc) ==
    \/ \E sid \in SessionIds : refresh_start(sid, acc) \/ get_my_activities(sid, acc)
    \/ \E r \in BagToSet(req), op \in ReadOps, price \in Prices :
          r.phone = acc /\ refresh_finish(AllOk, r, op, price)
    \/ \E u \in UserIds :
          /\ db_users[u].phone_number = acc
          /\ \/ orm_get_wallet_balance(u)
             \/ orm_get_my_investments(u)
             \/ orm_get_current_pnl(u)
             \/ orm_get_my_activities(u)

\* What no read may change of a position.
Kept(x) ==
    [id |-> x.id, user_phone |-> x.user_phone, asset_id |-> x.asset_id,
     units |-> x.units, invested_amount |-> x.invested_amount,
     entry_price |-> x.entry_price, status |-> x.status]

\* C37: a step of a read made for an account leaves the balance and equity
\* of every wallet and the activity log as they were, keeps every position
\* with its units, invested amount, entry price and status, and leaves every
\* position that is not an active position of that account as it was.
C37_ReadsFrame ==
    [][\A acc \in Phones :
          ReadStep(acc)
          => /\ Ledger' = Ledger
             /\ ActivityLog' = ActivityLog
             /\ {Kept(x) : x \in Positions'} = {Kept(x) : x \in Positions}
             /\ \A x \in Positions :
                   (x.user_phone # acc \/ x.status # "active") => x \in Positions'
      ]_vars

\* ------------------------------------------------------------------ C38
\* Session ids are issued in order, so an id up to next_sid that is not in
\* the sessions file has been logged out, and id 0 was never issued.
LoggedOut(sid) == sid \in 1..next_sid /\ sid \notin DOMAIN sessions

NeverIssued(sid) == sid \notin 1..next_sid

\* C38: a session that has been logged out is never valid again; a deposit,
\* withdrawal, buy or read carrying a logged-out session id, or an id never
\* issued, is answered 401 and changes no wallet, position, activity or
\* session and suspends nothing; and a logout of a session removes that
\* session, keeps every other session (of the same user or another) as it
\* was, and changes nothing else.
C38_LogoutInvalidates ==
    [][/\ \A sid \in SessionIds : LoggedOut(sid) => LoggedOut(sid)'
       /\ \A sid \in SessionIds, p \in Phones :
             ((LoggedOut(sid) \/ NeverIssued(sid)) /\ Requested(sid, p))
             => /\ last'.n # last.n /\ last'.status = 401
                /\ last'.detail = "Invalid session"
                /\ NothingChanged
                /\ UNCHANGED <<sessions, req>>
       /\ \A sid \in SessionIds :
             logout(AllOk, sid)
             => /\ sid \notin DOMAIN sessions'
                /\ \A other \in DOMAIN sessions \ {sid} :
                      other \in DOMAIN sessions' /\ sessions'[other] = sessions[other]
                /\ NothingChanged
      ]_vars

\* The only user has logged in a second time and logged its first session
\* out; the second session is still valid, and the last request, which
\* carried an invalid session id, has been answered 401.
C38_Witness ==
    /\ Cardinality(DOMAIN users) = 1
    /\ LoggedOut(1)
    /\ 2 \in DOMAIN sessions /\ auth_error(2) = "ok"
    /\ last.op \notin {"logout", "login", "register"}
    /\ last.status = 401 /\ last.detail = "Invalid session"

\* ------------------------------------------------------------------ C39
\* C39: in the ORM variant, a buy of an asset of the table, priced above 0,
\* for an amount that is at least the minimum investment of the asset and at
\* most the balance of the buyer's wallet, is answered 200, whatever the
\* buyer has bought before.
C39_OrmBuySucceeds ==
    [][\A u \in UserIds, x \in AssetIds, a \in Amounts \cup PnlAmounts :
          (/\ orm_buy_investment(u, x, a)
           /\ x \in DOMAIN db_assets
           /\ db_assets[x].current_price > 0
           /\ a >= db_assets[x].min_investment
           /\ wallet_of(u) # 0
           /\ a <= db_wallets[wallet_of(u)].balance)
          => last'.status = 200
      ]_vars

====
